---- MODULE Spec2Model ----
(***************************************************************************)
(* The browser process lifecycle coordinator of src/src/cli.ts:            *)
(* initBrowser (probe, spawn, ledger write, readiness wait, control handle *)
(* initialisation), closeBrowser (handle close, child signals, graceful    *)
(* close over a throwaway connection, verified force kill, ledger          *)
(* deletion), verifyIsChromeProcess and main.                              *)
(*                                                                         *)
(* Each CLI invocation is an OS process of its own.  The operating system  *)
(* (process table, the control port), the ledger file .chrome-pid and the  *)
(* profile directory are the state invocations share; the module-level     *)
(* variables of cli.ts are the memory of one invocation and are lost when  *)
(* it exits.  One action is one step of the code between two points where  *)
(* it waits on the outside world (an await, a child process, the file      *)
(* system).                                                                *)
(***************************************************************************)
EXTENDS Integers, Sequences, FiniteSets, TLC

----------------------------------------------------------------------------
(* Bounds of the model *)

\* process ids the operating system hands out (and reuses)
MaxPid == 2

(* Program constants *)

\* for (let i = 0; i < 50; i++)
WaitAttempts == 50
\* while (retries < 30)
PageRetries == 30
\* setTimeout(resolve, 300) between two probes of the readiness wait
WaitInterval == 300

PIDs == 1..MaxPid
NoPid == 0
\* the value Date.now() gives; the code never reads startTime back
Times == {"t1"}

\* the slots CLI processes run in: invocations that follow one another use
\* the first, an invocation started while another is running the second
Inv == {"inv", "inv2"}
Sequential == {"inv"}

----------------------------------------------------------------------------
(* Executable names, as the process table prints them *)

\* String.prototype.toLowerCase on the letters that occur in the names
LowerChar(c) ==
    CASE c = "G" -> "g"
      [] c = "C" -> "c"
      [] c = "N" -> "n"
      [] c = "I" -> "i"
      [] c = "F" -> "f"
      [] c = "O" -> "o"
      [] OTHER -> c

toLowerCase(s) == [k \in 1..Len(s) |-> LowerChar(s[k])]

IsSpace(c) == c \in {" ", "\n"}

RECURSIVE trimStart(_)
trimStart(s) == IF s /= <<>> /\ IsSpace(Head(s)) THEN trimStart(Tail(s)) ELSE s

RECURSIVE trimEnd(_)
trimEnd(s) ==
    IF s /= <<>> /\ IsSpace(s[Len(s)]) THEN trimEnd(SubSeq(s, 1, Len(s) - 1)) ELSE s

\* String.prototype.trim
trim(s) == trimEnd(trimStart(s))

\* String.prototype.includes
includes(s, sub) ==
    \E k \in 0..(Len(s) - Len(sub)) : SubSeq(s, k + 1, k + Len(sub)) = sub

ChromeWord == <<"c", "h", "r", "o", "m", "e">>
ChromiumWord == <<"c", "h", "r", "o", "m", "i", "u", "m">>


----------------------------------------------------------------------------
(* State *)

VARIABLES
    proc,             \* the OS process table: pid -> what runs under it
    listener,         \* the pid serving the control port 9222, or NoPid
    ledger,           \* the file .chrome-pid: NoLedger or {pid, startTime}
    profileDir,       \* the directory .chrome-profile: whether it exists and
                      \* how often the user's profile was copied into it
    mem               \* the memory of each running invocation

envVars == <<proc, listener, ledger, profileDir>>
vars == <<proc, listener, ledger, profileDir, mem>>

\* process.platform, read by every run of the lookup (lines 231, 235); on
\* any other platform than these three the lookup answers false (line 239)
Platforms == {"darwin", "linux", "win32", "freebsd"}
Kinds == {"free", "tool", "user", "other"}
Browsers == {"tool", "user"}
NoLedger == [pid |-> NoPid, startTime |-> "none"]
NoRet == <<0, 0>>

\* A process runs main and, once a signal has been dispatched, the signal
\* handler (lines 429-438): two async functions that take turns at their
\* awaits.  The fields of mem[i] hold the locals of the one that is running
\* and mem[i].other those of the one that is suspended; the module-level
\* variables (lines 12-15) are shared.
LocalFields ==
    {"pc", "cmd", "again", "attempt", "retries", "pid", "isChrome", "lookup",
     "sigs", "err", "result", "pending", "raised", "ret", "firstProbe",
     "spawns", "writes", "replaced", "unlinkFailed", "probes", "slept",
     "pageCheck"}

\* the handler before any signal has been dispatched
NoCoroutine == [pc |-> "none"]

\* the module-level variables of cli.ts (lines 12-15), the locals of the
\* running call, and what the invocation has done so far
FreshMem ==
    [pc |-> "idle", cmd |-> "none", again |-> FALSE,
     stagehandInstance |-> 0, currentPage |-> 0,
     chromeProcess |-> NoPid, childStatus |-> "none", connected |-> NoPid,
     weStartedChrome |-> FALSE,
     attempt |-> 0, retries |-> 0,
     pid |-> NoPid, isChrome |-> FALSE, lookup |-> "none", sigs |-> {},
     err |-> "none", result |-> "none", pending |-> FALSE, raised |-> FALSE,
     ret |-> NoRet, lastHandle |-> 0,
     launched |-> FALSE, firstProbe |-> "none", spawns |-> 0, writes |-> 0,
     replaced |-> FALSE, unlinkFailed |-> FALSE,
     probes |-> 0, slept |-> 0, pageCheck |-> "none",
     role |-> "main", other |-> NoCoroutine,
     launches |-> 0, inits |-> 0, closed |-> 0]

\* .chrome-profile before the first run of the tool
NoProfileDir == [exists |-> FALSE, copies |-> 0]

Init ==
    /\ proc = [p \in PIDs |-> "free"]
    /\ listener = NoPid
    /\ ledger = NoLedger
    /\ profileDir = NoProfileDir
    /\ mem = [i \in Inv |-> FreshMem]

----------------------------------------------------------------------------
(* The operating system *)

\* the executable name the process table shows for a process
Comm(kind, plat) ==
    CASE plat = "win32" ->
           (CASE kind \in Browsers -> <<"c", "h", "r", "o", "m", "e", ".", "e", "x", "e">>
              [] kind = "other" -> <<"n", "o", "d", "e", ".", "e", "x", "e">>
              [] OTHER -> <<"I", "N", "F", "O">>)
      [] plat = "darwin" ->
           (CASE kind = "tool" -> <<"G", "o", "o", "g", "l", "e", " ", "C", "h", "r", "o", "m", "e">>
              [] kind = "user" -> <<"C", "h", "r", "o", "m", "i", "u", "m">>
              [] OTHER -> <<"n", "o", "d", "e">>)
      [] OTHER ->
           (CASE kind = "tool" -> <<"c", "h", "r", "o", "m", "e">>
              [] kind = "user" -> <<"c", "h", "r", "o", "m", "i", "u", "m">>
              [] OTHER -> <<"n", "o", "d", "e">>)

\* fetch of http://127.0.0.1:9222/json/version answers with a success status
EndpointReady == listener /= NoPid

\* what the death of process p does to the memory of the invocations:
\* a ChildProcess handle learns how its child ended (exitCode or signalCode),
\* a control connection to that browser is gone
MemAfterDeath(p, how) ==
    [j \in Inv |->
        [childStatus |->
            IF mem[j].chromeProcess = p /\ mem[j].childStatus = "running"
            THEN how ELSE mem[j].childStatus,
         connected |-> IF mem[j].connected = p THEN NoPid ELSE mem[j].connected]
        @@ mem[j]]

ProcAfterDeath(p) == [proc EXCEPT ![p] = "free"]
ListenerAfterDeath(p) == IF listener = p THEN NoPid ELSE listener

\* a process ends by itself (a crash, the user quitting it)
ProcExits(p) ==
    /\ proc[p] /= "free"
    /\ proc' = ProcAfterDeath(p)
    /\ listener' = ListenerAfterDeath(p)
    /\ mem' = MemAfterDeath(p, "exited")
    /\ UNCHANGED <<ledger, profileDir>>

\* a browser started with --remote-debugging-port=9222 begins to serve the
\* port, which one process at a time can hold
BrowserBinds(p) ==
    /\ proc[p] = "tool"
    /\ listener = NoPid
    /\ listener' = p
    /\ UNCHANGED <<proc, ledger, profileDir, mem>>

\* the user starts a browser of their own, possibly with remote debugging on
\* the same port; the OS may hand it a pid used before.  The tool can tell
\* such a browser only when it serves the port or runs under the pid the
\* ledger names: the others are left out.
UserStartsChrome(p, debugging) ==
    /\ proc[p] = "free"
    /\ (debugging /\ listener = NoPid) \/ p = ledger.pid
    /\ proc' = [proc EXCEPT ![p] = "user"]
    /\ listener' = IF debugging /\ listener = NoPid THEN p ELSE listener
    /\ UNCHANGED <<ledger, profileDir, mem>>

\* some unrelated program starts under a pid used before, the one the
\* ledger names; under any other pid the tool never looks at it
OtherStarts(p) ==
    /\ proc[p] = "free"
    /\ p = ledger.pid
    /\ proc' = [proc EXCEPT ![p] = "other"]
    /\ UNCHANGED <<listener, ledger, profileDir, mem>>

----------------------------------------------------------------------------
(* One invocation: main *)

\* mem with the fields of upd replaced in invocation i
Set(i, upd) == mem' = [mem EXCEPT ![i] = upd @@ @]
SetIn(base, i, upd) == mem' = [base EXCEPT ![i] = upd @@ @]

\* "page" stands for navigate, act, extract, observe and screenshot, which
\* all start with initBrowser; "usage" for an unknown command, a missing
\* argument or an unparsable schema, which throw inside main's try
Commands == {"page", "close", "usage"}

EntryOf(c) == IF c = "page" THEN "initEntry" ELSE "closeEntry"

\* the counters of the model stop at MaxCount
MaxCount == 2

Bump(n) == IF n < MaxCount THEN n + 1 ELSE n

\* prepareChromeProfile with a directory that is copied whatever exists
prepareChromeProfileAlways(sourceDefault) ==
    profileDir' = [exists |-> TRUE,
                   copies |-> IF sourceDefault THEN Bump(profileDir.copies)
                              ELSE profileDir.copies]

\* prepareChromeProfile (browser-utils.ts:78-103): when .chrome-profile does
\* not exist it is created and, if the user's Default profile exists
\* (sourceDefault), that profile is copied into it
prepareChromeProfile(sourceDefault) ==
    profileDir' = IF profileDir.exists
                  THEN profileDir
                  ELSE [exists |-> TRUE,
                        copies |-> IF sourceDefault
                                   THEN Bump(profileDir.copies)
                                   ELSE profileDir.copies]

\* a CLI process starts: main runs prepareChromeProfile (line 358, outside the
\* try of main) and dispatches.  copied = FALSE is cpSync throwing part-way:
\* the directory is there, the process ends before it reads its arguments.
StartWith(i, c, sourceDefault, copied) ==
    /\ \A j \in Inv : mem[j].pc = "idle"
    /\ prepareChromeProfile(sourceDefault)
    /\ copied \/ (sourceDefault /\ ~profileDir.exists)
    /\ IF copied
       THEN Set(i, [pc |-> EntryOf(c), cmd |-> c])
       ELSE UNCHANGED mem
    /\ UNCHANGED <<proc, listener, ledger>>

\* a CLI process of a user whose Chrome profile exists and can be copied
StartInvocation(i, c) == StartWith(i, c, TRUE, TRUE)

\* a CLI process starts while another one is still running: nothing in
\* cli.ts keeps two invocations apart
StartOverlapping(i, c) ==
    /\ i \notin Sequential
    /\ mem[i].pc = "idle"
    /\ \E j \in Sequential : mem[j].pc /= "idle"
    /\ prepareChromeProfile(TRUE)
    /\ Set(i, [pc |-> EntryOf(c), cmd |-> c])
    /\ UNCHANGED <<proc, listener, ledger>>

\* process.exit: the memory of the invocation is gone, its child lives on
Exit(i) ==
    /\ mem[i].pc = "result"
    /\ mem' = [mem EXCEPT ![i] = FreshMem]
    /\ UNCHANGED envVars

\* The contract of initBrowser and closeBrowser covers a further call in the
\* same process: the handle is memoized "for the lifetime of one invocation",
\* and the signal handlers (lines 429-438) call closeBrowser after main has
\* called initBrowser.  main itself issues one command per process.
NextCall(i, c) ==
    /\ mem[i].pc = "result"
    /\ mem[i].cmd = "page"
    /\ ~mem[i].again
    /\ c \in {"page", "close"}
    /\ Set(i, [pc |-> EntryOf(c), cmd |-> c, again |-> TRUE,
               err |-> "none", result |-> "none", firstProbe |-> "none",
               spawns |-> 0, writes |-> 0, replaced |-> FALSE,
               unlinkFailed |-> FALSE, probes |-> 0, slept |-> 0])
    /\ UNCHANGED envVars

----------------------------------------------------------------------------
(* initBrowser *)

\* the command's catch block: a structured failure result, nothing raised
Failed(e) == [pc |-> "result", result |-> "failure", err |-> e,
              attempt |-> 0, retries |-> 0, pageCheck |-> "none"]

\* lines 17-28 without the memoization of lines 18-20
InitEntryNoMemo(i) ==
    /\ mem[i].pc = "initEntry"
    /\ \E chromePath \in BOOLEAN :
        IF ~chromePath
        THEN Set(i, Failed("Could not find Chrome installation"))
        ELSE Set(i, [pc |-> "firstProbe", firstProbe |-> "none",
                     spawns |-> 0, writes |-> 0, replaced |-> FALSE,
                     probes |-> 0, slept |-> 0])
    /\ UNCHANGED envVars

\* lines 17-28 with the probe of lines 31-40 made before the executable is
\* looked for
InitEntryProbesFirst(i) ==
    /\ mem[i].pc = "initEntry"
    /\ IF mem[i].stagehandInstance /= 0
       THEN Set(i, [pc |-> "pageOp",
                    ret |-> <<mem[i].stagehandInstance, mem[i].currentPage>>])
       ELSE \E chromePath \in BOOLEAN :
            IF ~chromePath
            THEN Set(i, [firstProbe |-> IF EndpointReady THEN "ok" ELSE "fail"]
                        @@ Failed("Could not find Chrome installation"))
            ELSE Set(i, [pc |-> "firstProbe", firstProbe |-> "none",
                         spawns |-> 0, writes |-> 0, replaced |-> FALSE,
                         probes |-> 0, slept |-> 0])
    /\ UNCHANGED envVars

\* lines 17-28: the memoized handle, or the search for the executable
InitEntry(i) ==
    /\ mem[i].pc = "initEntry"
    /\ IF mem[i].stagehandInstance /= 0
       THEN Set(i, [pc |-> "pageOp",
                    ret |-> <<mem[i].stagehandInstance, mem[i].currentPage>>])
       ELSE \E chromePath \in BOOLEAN :
            IF ~chromePath
            THEN Set(i, Failed("Could not find Chrome installation"))
            ELSE Set(i, [pc |-> "firstProbe", firstProbe |-> "none",
                         spawns |-> 0, writes |-> 0, replaced |-> FALSE,
                         probes |-> 0, slept |-> 0])
    /\ UNCHANGED envVars

\* lines 30-43 with the launch taken whatever the probe answered
FirstProbeAlwaysLaunches(i) ==
    /\ mem[i].pc = "firstProbe"
    /\ Set(i, [pc |-> "spawn",
               firstProbe |-> IF EndpointReady THEN "ok" ELSE "fail"])
    /\ UNCHANGED envVars

\* lines 30-43 with a launch that is held back while the ledger names a
\* browser some invocation has launched
FirstProbeHonoursLedger(i) ==
    /\ mem[i].pc = "firstProbe"
    /\ IF EndpointReady
       THEN Set(i, [pc |-> "shInit", firstProbe |-> "ok"])
       ELSE IF ledger /= NoLedger
       THEN Set(i, [pc |-> "wait", attempt |-> 0, firstProbe |-> "fail"])
       ELSE Set(i, [pc |-> "spawn", firstProbe |-> "fail"])
    /\ UNCHANGED envVars

\* lines 30-43: is a browser already serving the control port?
FirstProbe(i) ==
    /\ mem[i].pc = "firstProbe"
    /\ IF EndpointReady
       THEN Set(i, [pc |-> "shInit", firstProbe |-> "ok"])
       ELSE Set(i, [pc |-> "spawn", firstProbe |-> "fail"])
    /\ UNCHANGED envVars

\* lines 44-52: spawn.  The OS gives the child a free pid; when the OS cannot
\* create the process, spawn still returns a ChildProcess, whose pid is
\* undefined and which emits 'error' on the next tick.
Spawn(i) ==
    /\ mem[i].pc = "spawn"
    /\ \/ \E p \in PIDs :
            /\ proc[p] = "free"
            /\ proc' = [proc EXCEPT ![p] = "tool"]
            /\ Set(i, [pc |-> "writePid", chromeProcess |-> p,
                       childStatus |-> "running", launched |-> TRUE,
                       spawns |-> mem[i].spawns + 1])
       \/ /\ proc' = proc
          /\ Set(i, [pc |-> "writePid", chromeProcess |-> NoPid,
                     spawns |-> mem[i].spawns + 1])
    /\ UNCHANGED <<listener, ledger, profileDir>>

\* lines 57-60 with a write that leaves an existing file alone
LedgerKeptIfPresent(p, now) ==
    IF ledger = NoLedger THEN [pid |-> p, startTime |-> now] ELSE ledger

\* lines 57-60: writeFileSync replaces whatever the file held
LedgerWritten(p, now) == [pid |-> p, startTime |-> now]

\* lines 54-61 without the write
WritePidSkipped(i) ==
    /\ mem[i].pc = "writePid"
    /\ Set(i, [pc |-> "wait", attempt |-> 0])
    /\ UNCHANGED envVars

\* lines 54-61: the ledger is written when the child has a pid.  A child
\* without a pid emits 'error', nothing listens for it (line 44), and the
\* process ends at the first await of the wait loop.
WritePidAt(i, now) ==
    /\ mem[i].pc = "writePid"
    /\ IF mem[i].chromeProcess /= NoPid
       THEN /\ ledger' = LedgerWritten(mem[i].chromeProcess, now)
            /\ Set(i, [pc |-> "wait", attempt |-> 0,
                       writes |-> mem[i].writes + 1,
                       replaced |-> ledger /= NoLedger])
       ELSE /\ ledger' = ledger
            /\ mem' = [mem EXCEPT ![i] = FreshMem]
    /\ UNCHANGED <<proc, listener, profileDir>>

WritePid(i) == \E now \in Times : WritePidAt(i, now)

\* what a fetch of /json/version comes to: a success status, another
\* status, or an exception (connection refused, a network error)
ProbeOutcomes == {"ok", "status", "throws"}

\* the outcomes the endpoint can give in the current state
Probed(outcome) == (outcome = "ok") <=> EndpointReady

\* lines 65-74: chromeReady is set on response.ok alone; the catch block
\* swallows the exception
chromeReady(outcome) == outcome = "ok"

\* a delay that grows with the attempt
WaitDelayGrowing(k) == WaitInterval * (k + 1)

\* line 75: the delay after attempt k (counted from 0)
WaitDelay(k) == WaitInterval

\* lines 63-80: one iteration of the readiness wait (the probe and, when it
\* fails, the 300 ms sleep); after the last failed probe and its sleep the
\* call throws
WaitProbe(i) ==
    /\ mem[i].pc = "wait"
    /\ mem[i].attempt < WaitAttempts
    /\ \E outcome \in ProbeOutcomes :
        /\ Probed(outcome)
        /\ IF chromeReady(outcome)
           THEN Set(i, [pc |-> "shInit", weStartedChrome |-> TRUE,
                        attempt |-> 0, slept |-> 0])
           ELSE IF mem[i].attempt + 1 < WaitAttempts
           THEN Set(i, [attempt |-> mem[i].attempt + 1,
                        slept |-> mem[i].slept + WaitDelay(mem[i].attempt)])
           ELSE Set(i, [probes |-> mem[i].attempt + 1,
                        slept |-> mem[i].slept + WaitDelay(mem[i].attempt)]
                       @@ Failed("Chrome failed to start"))
    /\ UNCHANGED envVars

\* lines 83-94: new Stagehand, init() over the control port, currentPage.
\* stagehandInstance is assigned before init() is awaited.
ShInit(i) ==
    /\ mem[i].pc = "shInit"
    /\ \E ok \in {TRUE, FALSE} :
        LET h == IF mem[i].lastHandle = 1 THEN 2 ELSE 1 IN
        IF ok /\ EndpointReady
        THEN Set(i, [pc |-> "pageReady", stagehandInstance |-> h,
                     currentPage |-> h, connected |-> listener,
                     lastHandle |-> h, retries |-> 0])
        ELSE Set(i, [stagehandInstance |-> h, lastHandle |-> h]
                    @@ Failed("Stagehand init failed"))
    /\ UNCHANGED envVars

\* lines 96-106: one iteration of the page readiness poll; the loop ends on
\* the first success or after the last retry, and the code goes on either way
PageReady(i) ==
    /\ mem[i].pc = "pageReady"
    /\ mem[i].retries < PageRetries
    /\ \E ok \in {TRUE, FALSE} :
        IF ok /\ mem[i].connected /= NoPid
        THEN Set(i, [pc |-> "downloads", retries |-> 0,
                     pageCheck |-> "answered"])
        ELSE IF mem[i].retries + 1 >= PageRetries
        THEN Set(i, [pc |-> "downloads", retries |-> 0,
                     pageCheck |-> "exhausted"])
        ELSE Set(i, [retries |-> mem[i].retries + 1])
    /\ UNCHANGED envVars

\* lines 108-122: the downloads directory, the CDP session, the return
Downloads(i) ==
    /\ mem[i].pc = "downloads"
    /\ \E ok \in {TRUE, FALSE} :
        IF ok /\ mem[i].connected /= NoPid
        THEN Set(i, [pc |-> "pageOp",
                     ret |-> <<mem[i].stagehandInstance, mem[i].currentPage>>])
        ELSE Set(i, Failed("CDP session failed"))
    /\ UNCHANGED envVars

\* lines 246-353: the page operation and the screenshot, inside the
\* command's try/catch
PageOp(i) ==
    /\ mem[i].pc = "pageOp"
    /\ \E ok \in {TRUE, FALSE} :
        IF ok /\ mem[i].connected /= NoPid
        THEN Set(i, [pc |-> "result", result |-> "success",
                     pageCheck |-> "none"])
        ELSE Set(i, Failed("page operation failed"))
    /\ UNCHANGED envVars

----------------------------------------------------------------------------
(* verifyIsChromeProcess *)

\* what exec of ps / tasklist prints for pid p; ps exits non-zero, and exec
\* rejects, when no process has that pid
Stdout(p, plat) ==
    IF plat = "win32"
    THEN Comm(proc[p], plat)
    ELSE Comm(proc[p], plat) \o <<"\n">>

\* a lookup that takes any live process for the browser
verifyAnyLiveProcess(p, plat) == proc[p] /= "free"

\* lines 225-243
verifyIsChromeProcess(p, plat) ==
    IF plat \in {"darwin", "linux"}
    THEN IF proc[p] = "free"
         THEN FALSE
         ELSE LET processName == toLowerCase(trim(Stdout(p, plat)))
              IN  includes(processName, ChromeWord)
                    \/ includes(processName, ChromiumWord)
    ELSE IF plat = "win32"
    THEN includes(toLowerCase(Stdout(p, plat)), ChromeWord)
    ELSE FALSE

----------------------------------------------------------------------------
(* closeBrowser *)

\* the try blocks of closeBrowser that have a catch: the handle close
\* (131-135), the child signals (142-151), the inner probe and kill (181-209),
\* the whole cross-invocation part (157-213), the unlink (216-220)
CatchesWithoutUnlink == {"handleClose", "childKill", "inner", "outer"}

\* the try around the two kill calls of lines 142-151 left out
CatchesWithoutChildKill == {"handleClose", "inner", "outer", "unlink"}

Catches == {"handleClose", "childKill", "inner", "outer", "unlink"}

Caught(block) ==
    IF block = "inner" THEN "inner" \in Catches \/ "outer" \in Catches
    ELSE block \in Catches

\* an error outside the try/finally leaves closeBrowser at once
Raise == [pc |-> "result", result |-> "failure", raised |-> TRUE]

\* an error inside the try/finally: the finally block runs, and the error
\* goes on to the caller unless a catch took it
ToFinally(block) == [pc |-> "closeFinally", pending |-> ~Caught(block)]

\* a signal, or a request to close, that reached process p
Signal(sig, via, p) == [sig |-> sig, via |-> via, pid |-> p, target |-> proc[p]]

Sent(i, sig, via, p) == [sigs |-> mem[i].sigs \cup {Signal(sig, via, p)}]

AfterHandle(i) ==
    IF mem[i].chromeProcess /= NoPid /\ mem[i].weStartedChrome
    THEN "closeTerm" ELSE "closeProbe1"

\* lines 125-141: close the memoized handle, if any; the browser it is
\* connected to may quit when asked to close
CloseEntry(i) ==
    /\ mem[i].pc = "closeEntry"
    /\ LET locals == [pid |-> NoPid, isChrome |-> FALSE, lookup |-> "none",
                      pending |-> FALSE, unlinkFailed |-> FALSE, sigs |-> {}]
           b == mem[i].connected
       IN
       IF mem[i].stagehandInstance = 0
       THEN /\ Set(i, [pc |-> AfterHandle(i)] @@ locals)
            /\ UNCHANGED <<proc, listener>>
       ELSE \E throws \in BOOLEAN, quits \in BOOLEAN :
            LET asked == IF b /= NoPid
                         THEN [sigs |-> {Signal("close", "handle", b)}] @@ locals
                         ELSE locals
                gone == b /= NoPid /\ quits
            IN
            /\ proc' = IF gone THEN ProcAfterDeath(b) ELSE proc
            /\ listener' = IF gone THEN ListenerAfterDeath(b) ELSE listener
            /\ SetIn(IF gone THEN MemAfterDeath(b, "exited") ELSE mem, i,
                     IF throws /\ ~Caught("handleClose")
                     THEN Raise @@ asked
                     ELSE [pc |-> AfterHandle(i), stagehandInstance |-> 0,
                           currentPage |-> 0, connected |-> NoPid,
                           ret |-> NoRet] @@ asked)
    /\ UNCHANGED <<ledger, profileDir>>

\* lines 152-153 without the reset of weStartedChrome
ForgetChildKeepsFlag == [chromeProcess |-> NoPid, childStatus |-> "none"]

ForgetChild == [chromeProcess |-> NoPid, childStatus |-> "none",
                weStartedChrome |-> FALSE]

\* lines 141-145: SIGTERM to the child this invocation spawned, then the
\* 1 s grace period.  A handle whose child has ended sends nothing.
CloseTerm(i) ==
    /\ mem[i].pc = "closeTerm"
    /\ LET p == mem[i].chromeProcess
           alive == mem[i].childStatus = "running"
       IN \E outcome \in {"throws", "dies", "quits", "survives"} :
          IF outcome = "throws"
          THEN /\ IF Caught("childKill")
                  THEN Set(i, [pc |-> "closeProbe1"] @@ ForgetChild)
                  ELSE Set(i, Raise)
               /\ UNCHANGED <<proc, listener>>
          ELSE IF alive
          THEN LET gone == outcome /= "survives" IN
               /\ proc' = IF gone THEN ProcAfterDeath(p) ELSE proc
               /\ listener' = IF gone THEN ListenerAfterDeath(p) ELSE listener
               /\ SetIn(IF gone
                        THEN MemAfterDeath(p, IF outcome = "dies"
                                              THEN "signaled" ELSE "exited")
                        ELSE mem,
                        i, [pc |-> "closeGrace"] @@ Sent(i, "SIGTERM", "handle", p))
          ELSE /\ outcome = "survives"
               /\ Set(i, [pc |-> "closeGrace"])
               /\ UNCHANGED <<proc, listener>>
    /\ UNCHANGED <<ledger, profileDir>>

\* a wait for the child's exit instead of the 1 s grace period
CloseGraceAwaitsExit(i) ==
    /\ mem[i].pc = "closeGrace"
    /\ mem[i].childStatus /= "running"
    /\ Set(i, [pc |-> "closeProbe1"] @@ ForgetChild)
    /\ UNCHANGED envVars

\* a SIGKILL sent to whatever runs under the child's pid as long as exitCode
\* is null
CloseGraceKillsPid(i) ==
    /\ mem[i].pc = "closeGrace"
    /\ LET p == mem[i].chromeProcess
           exitCodeNull == mem[i].childStatus \in {"running", "signaled"}
           alive == mem[i].childStatus = "running"
       IN IF exitCodeNull
          THEN /\ proc' = IF alive THEN ProcAfterDeath(p) ELSE proc
               /\ listener' = IF alive THEN ListenerAfterDeath(p) ELSE listener
               /\ SetIn(IF alive THEN MemAfterDeath(p, "signaled") ELSE mem, i,
                        [pc |-> "closeProbe1"] @@ ForgetChild
                          @@ Sent(i, "SIGKILL", "handle", p))
          ELSE /\ Set(i, [pc |-> "closeProbe1"] @@ ForgetChild)
               /\ UNCHANGED <<proc, listener>>
    /\ UNCHANGED <<ledger, profileDir>>

\* lines 146-154: after the grace period, SIGKILL if exitCode is still null
\* (it stays null too when the child was ended by a signal)
CloseGrace(i) ==
    /\ mem[i].pc = "closeGrace"
    /\ LET p == mem[i].chromeProcess
           exitCodeNull == mem[i].childStatus \in {"running", "signaled"}
           alive == mem[i].childStatus = "running"
       IN \E throws \in BOOLEAN :
          IF exitCodeNull /\ throws
          THEN /\ IF Caught("childKill")
                  THEN Set(i, [pc |-> "closeProbe1"] @@ ForgetChild)
                  ELSE Set(i, Raise)
               /\ UNCHANGED <<proc, listener>>
          ELSE IF exitCodeNull /\ alive
          THEN /\ proc' = ProcAfterDeath(p)
               /\ listener' = ListenerAfterDeath(p)
               /\ SetIn(MemAfterDeath(p, "signaled"), i,
                        [pc |-> "closeProbe1"] @@ ForgetChild
                          @@ Sent(i, "SIGKILL", "handle", p))
          ELSE /\ ~throws
               /\ Set(i, [pc |-> "closeProbe1"] @@ ForgetChild)
               /\ UNCHANGED <<proc, listener>>
    /\ UNCHANGED <<ledger, profileDir>>

\* lines 157-163: the probe with a 2 s timeout
CloseProbe1(i) ==
    /\ mem[i].pc = "closeProbe1"
    /\ \E answered \in BOOLEAN :
        IF answered /\ EndpointReady
        THEN Set(i, [pc |-> "closeTemp"])
        ELSE Set(i, ToFinally("outer"))
    /\ UNCHANGED envVars

\* lines 164-178: a throwaway connection, init and close, then the 2 s wait
CloseTemp(i) ==
    /\ mem[i].pc = "closeTemp"
    /\ LET b == listener IN
       \E throws \in BOOLEAN, quits \in BOOLEAN :
        LET gone == b /= NoPid /\ quits
            asked == IF b /= NoPid THEN Sent(i, "close", "cdp", b)
                     ELSE [sigs |-> mem[i].sigs]
        IN
        /\ proc' = IF gone THEN ProcAfterDeath(b) ELSE proc
        /\ listener' = IF gone THEN ListenerAfterDeath(b) ELSE listener
        /\ SetIn(IF gone THEN MemAfterDeath(b, "exited") ELSE mem, i,
                 (IF throws \/ b = NoPid
                  THEN ToFinally("outer") ELSE [pc |-> "closeProbe2"]) @@ asked)
    /\ UNCHANGED <<ledger, profileDir>>

\* lines 180-187: the probe with a 1 s timeout
CloseProbe2(i) ==
    /\ mem[i].pc = "closeProbe2"
    /\ \E answered \in BOOLEAN :
        IF answered /\ EndpointReady
        THEN Set(i, [pc |-> "closeLedger"])
        ELSE Set(i, ToFinally("inner"))
    /\ UNCHANGED envVars

\* lines 188-191 with the file removed as soon as it has been read
CloseLedgerConsumes(i) ==
    /\ mem[i].pc = "closeLedger"
    /\ IF ledger = NoLedger
       THEN Set(i, [pc |-> "closeFinally"])
       ELSE \E readable \in BOOLEAN :
            IF readable
            THEN Set(i, [pc |-> "closeVerify", pid |-> ledger.pid])
            ELSE Set(i, ToFinally("inner"))
    /\ ledger' = NoLedger
    /\ UNCHANGED <<proc, listener, profileDir>>

\* a read that takes an entry with an old startTime for a stale one
CloseLedgerOnFresh(i, file) ==
    /\ mem[i].pc = "closeLedger"
    /\ IF file = NoLedger \/ file.startTime = "t1"
       THEN Set(i, [pc |-> "closeFinally"])
       ELSE \E readable \in BOOLEAN :
            IF readable
            THEN Set(i, [pc |-> "closeVerify", pid |-> file.pid])
            ELSE Set(i, ToFinally("inner"))
    /\ UNCHANGED <<proc, listener, profileDir>>

\* lines 188-191: existsSync, readFileSync, JSON.parse
CloseLedgerOn(i, file) ==
    /\ mem[i].pc = "closeLedger"
    /\ IF file = NoLedger
       THEN Set(i, [pc |-> "closeFinally"])
       ELSE \E readable \in BOOLEAN :
            IF readable
            THEN Set(i, [pc |-> "closeVerify", pid |-> file.pid])
            ELSE Set(i, ToFinally("inner"))
    /\ UNCHANGED <<proc, listener, profileDir>>

\* the file read is .chrome-pid, which the read leaves as it is
CloseLedger(i) == CloseLedgerOn(i, ledger) /\ ledger' = ledger

\* a kill that does not wait for the lookup's answer
AfterVerifyAlwaysKill(isChrome) == "closeKill"

\* line 195: if (isChrome)
AfterVerify(isChrome) == IF isChrome THEN "closeKill" ELSE "closeFinally"

\* lines 193-195: the process-table lookup decides whether to kill
CloseVerify(i) ==
    /\ mem[i].pc = "closeVerify"
    /\ \E plat \in Platforms :
        /\ LET isChrome == verifyIsChromeProcess(mem[i].pid, plat) IN
           Set(i, [pc |-> AfterVerify(isChrome), isChrome |-> isChrome,
                   lookup |-> proc[mem[i].pid]])
    /\ UNCHANGED <<proc, listener, ledger, profileDir>>

\* lines 196-203: taskkill /F or process.kill(pid, 'SIGKILL'); both fail
\* when no process has the pid or the signal is not permitted
CloseKill(i) ==
    /\ mem[i].pc = "closeKill"
    /\ LET p == mem[i].pid IN
       \E permitted \in BOOLEAN :
        IF permitted /\ proc[p] /= "free"
        THEN /\ proc' = ProcAfterDeath(p)
             /\ listener' = ListenerAfterDeath(p)
             /\ SetIn(MemAfterDeath(p, "signaled"), i,
                      [pc |-> "closeFinally"] @@ Sent(i, "SIGKILL", "ledger", p))
        ELSE /\ Set(i, ToFinally("inner"))
             /\ UNCHANGED <<proc, listener>>
    /\ UNCHANGED <<ledger, profileDir>>

\* a deletion placed inside the kill branch instead of the finally block
LedgerKeptUnlessKilled(i, file, unlinked) ==
    IF unlinked /\ mem[i].isChrome THEN NoLedger ELSE file

\* lines 215-221: if (existsSync(pidFilePath)) unlinkSync(pidFilePath)
LedgerAfterClose(i, file, unlinked) == IF unlinked THEN NoLedger ELSE file

\* lines 213-223: the finally block deletes the ledger file, ignoring a
\* failure of the deletion; then closeBrowser returns (or lets a pending
\* error go on to its caller)
CloseFinallyOn(i, file, unlinked) ==
    /\ mem[i].pc = "closeFinally"
    /\ LET fails == file /= NoLedger /\ ~unlinked
           raises == mem[i].pending \/ (fails /\ ~Caught("unlink"))
       IN
        /\ (file = NoLedger => unlinked)
        /\ Set(i, [pc |-> "result", pending |-> FALSE, raised |-> raises,
                   unlinkFailed |-> fails,
                   closed |-> Bump(mem[i].closed),
                   result |-> IF raises \/ mem[i].cmd = "usage"
                              THEN "failure" ELSE "success"])
    /\ UNCHANGED <<proc, listener, profileDir>>

\* the file deleted is .chrome-pid
CloseFinally(i) ==
    \E unlinked \in BOOLEAN :
        /\ CloseFinallyOn(i, ledger, unlinked)
        /\ ledger' = LedgerAfterClose(i, ledger, unlinked)

----------------------------------------------------------------------------
(* Signals *)

\* the points where the running function is in a synchronous stretch of
\* code: the event loop takes no turn there, so no handler starts and the
\* suspended function does not resume
SyncPcs ==
    {"idle", "initEntry", "spawn", "writePid", "closeEntry", "result",
     "serving", "mcpEntry", "mcpClose"}

LocalsOf(m) == [f \in LocalFields |-> m[f]]

FreshLocals == LocalsOf(FreshMem)

\* the function that is not running resumes, the running one is suspended
\* at its await
Switch(i) ==
    /\ mem[i].pc \notin SyncPcs
    /\ mem[i].other.pc /= "none"
    /\ Set(i, [role |-> IF mem[i].role = "main" THEN "handler" ELSE "main",
               other |-> LocalsOf(mem[i])] @@ mem[i].other)
    /\ UNCHANGED envVars

\* a handler that leaves the process at once
HandlerOnlyExits == "result"

\* lines 431, 436: the first statement of the handler
HandlerEntry == "closeEntry"

Signals == {"SIGINT", "SIGTERM"}

\* lines 429-438: SIGINT or SIGTERM is dispatched while main is suspended
\* at an await; the handler, the same code for both signals, starts and
\* runs up to its first await
SigDispatch(i, s) ==
    /\ s \in Signals
    /\ mem[i].pc \notin SyncPcs
    /\ mem[i].role = "main"
    /\ mem[i].other.pc = "none"
    /\ Set(i, [role |-> "handler", other |-> LocalsOf(mem[i])]
              @@ [pc |-> HandlerEntry, cmd |-> "signal"] @@ FreshLocals)
    /\ UNCHANGED envVars

----------------------------------------------------------------------------
(* The MCP tool server of src/stagehand-tools.ts *)

\* One long-lived process serves the tool calls.  Its module-level variables
\* (lines 10-13) are the fields stagehandInstance, currentPage and
\* chromeProcess of its memory; a tool call is an async function, and a call
\* that arrives while another is suspended at an await runs beside it
\* (mem[i].other holds the suspended one; role "handler" marks the call
\* that started second).  The second call arrives while the first is
\* suspended at the first await of one of its steps, and the first goes on
\* once the second has returned: an arrival later in a loop differs by the
\* iterations left only.

McpTools ==
    {"navigate", "act", "extract", "observe", "screenshot", "close_browser"}

\* the five page tools start with getStagehand, close_browser with
\* closeStagehand
McpKind(t) == IF t = "close_browser" THEN "close" ELSE "page"

McpEntryOf(t) == IF t = "close_browser" THEN "mcpClose" ELSE "mcpEntry"


\* handlers whose page tools alone catch
McpCatchesPageOnly == {"page"}

\* the handlers that wrap their body in try/catch: all six (lines 171-191,
\* 202-222, 234-275, 286-306, 316-339, 348-367)
McpCatches == {"page", "close"}

\* an error thrown inside the body of a handler
Thrown(i, e) == IF mem[i].cmd \in McpCatches THEN Failed(e) ELSE Raise

\* the server process starts; nothing is launched until the first tool call
StartServer(i) ==
    /\ \A j \in Inv : mem[j].pc = "idle"
    /\ Set(i, [pc |-> "serving", cmd |-> "server"])
    /\ UNCHANGED envVars

\* a tool call arrives: the handler starts at once when no call is running,
\* or beside a call that is suspended at an await
McpCall(i, t) ==
    /\ t \in McpTools
    /\ IF mem[i].pc = "serving"
       THEN Set(i, [pc |-> McpEntryOf(t), cmd |-> McpKind(t)] @@ FreshLocals)
       ELSE /\ mem[i].pc \notin SyncPcs
            /\ mem[i].other.pc = "none"
            /\ mem[i].attempt = 0
            /\ mem[i].retries = 0
            /\ Set(i, [role |-> "handler", other |-> LocalsOf(mem[i])]
                      @@ [pc |-> McpEntryOf(t), cmd |-> McpKind(t)]
                      @@ FreshLocals)
    /\ UNCHANGED envVars

\* the handler returns its result: the call is over, a suspended call goes on
McpReturn(i) ==
    /\ mem[i].pc = "result"
    /\ mem[i].cmd \in {"page", "close"}
    /\ IF mem[i].other.pc = "none"
       THEN Set(i, [pc |-> "serving", cmd |-> "server", role |-> "main"]
                   @@ FreshLocals)
       ELSE Set(i, [role |-> "main", other |-> NoCoroutine] @@ mem[i].other)
    /\ UNCHANGED envVars

\* line 16: if (!stagehandInstance)
McpMustLaunch(i) == mem[i].stagehandInstance = 0

\* lines 15-72 and 142: the handle already assigned is returned as it is;
\* otherwise the executable is looked for and the browser spawned, all before
\* the first await.  An 'error' listener (line 66) keeps a failed spawn from
\* ending the process.
McpEntry(i) ==
    /\ mem[i].pc = "mcpEntry"
    /\ IF ~McpMustLaunch(i)
       THEN /\ Set(i, [pc |-> "mcpPageOp",
                       ret |-> <<mem[i].stagehandInstance, mem[i].currentPage>>])
            /\ proc' = proc
       ELSE \E chromePath \in BOOLEAN :
            IF ~chromePath
            THEN /\ Set(i, Thrown(i, "Could not find local Chrome installation"))
                 /\ proc' = proc
            ELSE \/ \E p \in PIDs :
                      /\ proc[p] = "free"
                      /\ proc' = [proc EXCEPT ![p] = "tool"]
                      /\ Set(i, [pc |-> "mcpWait", attempt |-> 0,
                                 chromeProcess |-> p, childStatus |-> "running",
                                 launches |-> Bump(mem[i].launches)])
                 \/ /\ proc' = proc
                    /\ Set(i, [pc |-> "mcpWait", attempt |-> 0,
                               chromeProcess |-> NoPid, childStatus |-> "none",
                               launches |-> Bump(mem[i].launches)])
    /\ UNCHANGED <<listener, ledger, profileDir>>

\* lines 72-104: one iteration of the readiness wait; once the endpoint has
\* answered, the new Stagehand is assigned (line 96) before init() is awaited
McpWait(i) ==
    /\ mem[i].pc = "mcpWait"
    /\ mem[i].attempt < WaitAttempts
    /\ \E outcome \in ProbeOutcomes :
        /\ Probed(outcome)
        /\ IF chromeReady(outcome)
           THEN Set(i, [pc |-> "mcpInit", attempt |-> 0,
                        stagehandInstance |-> 1,
                        inits |-> Bump(mem[i].inits)])
           ELSE IF mem[i].attempt + 1 < WaitAttempts
           THEN Set(i, [attempt |-> mem[i].attempt + 1])
           ELSE Set(i, Thrown(i, "Chrome failed to start"))
    /\ UNCHANGED envVars

\* lines 104-106: init() returns or throws; the handle stays assigned
McpInit(i) ==
    /\ mem[i].pc = "mcpInit"
    /\ \E ok \in BOOLEAN :
        IF ok /\ EndpointReady
        THEN Set(i, [pc |-> "mcpPageReady", currentPage |-> 1,
                     connected |-> listener, retries |-> 0])
        ELSE Set(i, Thrown(i, "Stagehand init failed"))
    /\ UNCHANGED envVars

\* lines 108-126: the page readiness poll, which throws once the retries are
\* used up
McpPageReady(i) ==
    /\ mem[i].pc = "mcpPageReady"
    /\ mem[i].retries < PageRetries
    /\ \E ok \in BOOLEAN :
        IF ok /\ mem[i].connected /= NoPid
        THEN Set(i, [pc |-> "mcpDownloads", retries |-> 0,
                     pageCheck |-> "answered"])
        ELSE IF mem[i].retries + 1 >= PageRetries
        THEN Set(i, [pageCheck |-> "exhausted"]
                    @@ Thrown(i, "Browser failed to become ready"))
        ELSE Set(i, [retries |-> mem[i].retries + 1])
    /\ UNCHANGED envVars

\* lines 128-142: the downloads directory, the CDP session, the return
McpDownloads(i) ==
    /\ mem[i].pc = "mcpDownloads"
    /\ \E ok \in BOOLEAN :
        IF ok /\ mem[i].connected /= NoPid
        THEN Set(i, [pc |-> "mcpPageOp",
                     ret |-> <<mem[i].stagehandInstance, mem[i].currentPage>>])
        ELSE Set(i, Thrown(i, "CDP session failed"))
    /\ UNCHANGED envVars

\* lines 173, 204, 253, 288, 321: the page operation, on the page that
\* getStagehand returned (null while another call is still inside init)
McpPageOp(i) ==
    /\ mem[i].pc = "mcpPageOp"
    /\ \E ok \in BOOLEAN :
        IF ok /\ mem[i].connected /= NoPid /\ mem[i].ret[2] /= 0
        THEN Set(i, [pc |-> "result", result |-> "success",
                     pageCheck |-> "none"])
        ELSE Set(i, Thrown(i, "page operation failed"))
    /\ UNCHANGED envVars

\* lines 151-156: chromeProcess.kill() sends SIGTERM to a child that still
\* runs, and the handle is dropped
McpKilled(i, m) ==
    [m EXCEPT ![i] = [pc |-> "result", result |-> "success",
                      chromeProcess |-> NoPid, childStatus |-> "none",
                      launches |-> 0, inits |-> 0] @@ @]

McpKill(i, base, dies) ==
    LET p == base[i].chromeProcess
        alive == p /= NoPid /\ base[i].childStatus = "running"
        sent == IF alive
                THEN [base EXCEPT ![i] = Sent(i, "SIGTERM", "handle", p) @@ @]
                ELSE base
    IN
    /\ alive \/ ~dies
    /\ UNCHANGED <<ledger, profileDir>>
    /\ IF alive /\ dies
       THEN /\ proc' = ProcAfterDeath(p)
            /\ listener' = ListenerAfterDeath(p)
            /\ mem' = McpKilled(i,
                         [j \in Inv |->
                             [connected |-> IF sent[j].connected = p THEN NoPid
                                            ELSE sent[j].connected] @@ sent[j]])
       ELSE /\ UNCHANGED <<proc, listener>>
            /\ mem' = McpKilled(i, sent)

\* lines 145-157 when no handle is held: nothing is awaited
McpClose(i) ==
    /\ mem[i].pc = "mcpClose"
    /\ IF mem[i].stagehandInstance /= 0
       THEN /\ Set(i, [pc |-> "mcpCloseHandle"])
            /\ UNCHANGED envVars
       ELSE \E dies \in BOOLEAN : McpKill(i, mem, dies)

\* lines 146-157: await stagehandInstance.close() outside any try of
\* closeStagehand; when it throws, the handle and the child are kept.  A
\* browser that quits on being closed does so by ProcExits.
McpCloseHandle(i) ==
    /\ mem[i].pc = "mcpCloseHandle"
    /\ \E throws \in BOOLEAN, dies \in BOOLEAN :
        IF throws
        THEN /\ ~dies
             /\ Set(i, Thrown(i, "close failed"))
             /\ UNCHANGED envVars
        ELSE McpKill(i, [mem EXCEPT ![i] =
                            [stagehandInstance |-> 0, currentPage |-> 0,
                             connected |-> NoPid] @@ @], dies)

----------------------------------------------------------------------------

Next ==
    \/ \E i \in Sequential, c \in Commands : StartInvocation(i, c)
    \/ \E i \in Inv : Exit(i)
    \/ \E i \in Inv, c \in Commands : NextCall(i, c)
    \/ \E i \in Inv : InitEntry(i)
    \/ \E i \in Inv : FirstProbe(i)
    \/ \E i \in Inv : Spawn(i)
    \/ \E i \in Inv : WritePid(i)
    \/ \E i \in Inv : WaitProbe(i)
    \/ \E i \in Inv : ShInit(i)
    \/ \E i \in Inv : PageReady(i)
    \/ \E i \in Inv : Downloads(i)
    \/ \E i \in Inv : PageOp(i)
    \/ \E i \in Inv : CloseEntry(i)
    \/ \E i \in Inv : CloseTerm(i)
    \/ \E i \in Inv : CloseGrace(i)
    \/ \E i \in Inv : CloseProbe1(i)
    \/ \E i \in Inv : CloseTemp(i)
    \/ \E i \in Inv : CloseProbe2(i)
    \/ \E i \in Inv : CloseLedger(i)
    \/ \E i \in Inv : CloseVerify(i)
    \/ \E i \in Inv : CloseKill(i)
    \/ \E i \in Inv : CloseFinally(i)
    \/ \E p \in PIDs : ProcExits(p)
    \/ \E p \in PIDs : BrowserBinds(p)
    \/ \E p \in PIDs, d \in BOOLEAN : UserStartsChrome(p, d)
    \/ \E p \in PIDs : OtherStarts(p)

Spec == Init /\ [][Next]_vars

\* Two invocations of a page command that overlap in time, from their start
\* to the write of the ledger (lines 17-61)
NextOverlapping ==
    \/ \E i \in Sequential : StartInvocation(i, "page")
    \/ \E i \in Inv : StartOverlapping(i, "page")
    \/ \E i \in Inv : Exit(i)
    \/ \E i \in Inv : InitEntry(i)
    \/ \E i \in Inv : FirstProbe(i)
    \/ \E i \in Inv : Spawn(i)
    \/ \E i \in Inv : WritePid(i)
    \/ \E p \in PIDs : ProcExits(p)
    \/ \E p \in PIDs : BrowserBinds(p)

SpecOverlapping == Init /\ [][NextOverlapping]_vars

\* One invocation after the other up to the launch, with and without a Chrome
\* profile of the user to copy, for what prepareChromeProfile does
NextProfile ==
    \/ \E i \in Sequential, sourceDefault \in BOOLEAN, copied \in BOOLEAN :
            StartWith(i, "page", sourceDefault, copied)
    \/ \E i \in Sequential : Exit(i)
    \/ \E i \in Sequential : InitEntry(i)
    \/ \E i \in Sequential : FirstProbe(i)
    \/ \E i \in Sequential : Spawn(i)
    \/ \E i \in Sequential : WritePid(i)
    \/ \E i \in Sequential : WaitProbe(i)
    \/ \E p \in PIDs : ProcExits(p)
    \/ \E p \in PIDs : BrowserBinds(p)

SpecProfile == Init /\ [][NextProfile]_vars

\* the steps of a running process, the process-table lookup apart
StepButLookup(i) ==
    \/ Exit(i)
    \/ InitEntry(i)
    \/ FirstProbe(i)
    \/ Spawn(i)
    \/ WritePid(i)
    \/ WaitProbe(i)
    \/ ShInit(i)
    \/ PageReady(i)
    \/ Downloads(i)
    \/ PageOp(i)
    \/ CloseEntry(i)
    \/ CloseTerm(i)
    \/ CloseGrace(i)
    \/ CloseProbe1(i)
    \/ CloseTemp(i)
    \/ CloseProbe2(i)
    \/ CloseLedger(i)
    \/ CloseKill(i)
    \/ CloseFinally(i)

\* the steps of a running process
Step(i) == StepButLookup(i) \/ CloseVerify(i)

\* lines 193-195 and 225-243: the lookup returns, whatever it answers (exec
\* resolves or rejects, and the rejection is caught at line 240)
LookupReturns(i) ==
    /\ mem[i].pc = "closeVerify"
    /\ \E isChrome \in BOOLEAN :
        Set(i, [pc |-> AfterVerify(isChrome), isChrome |-> isChrome,
                lookup |-> proc[mem[i].pid]])
    /\ UNCHANGED envVars

\* closeBrowser called once more in a process in which a run of it has
\* completed, nothing having been launched since (its contract covers the
\* call; main and the signal handlers are its callers)
CloseAgain(i) ==
    /\ mem[i].pc = "result"
    /\ mem[i].cmd \in {"close", "usage"}
    /\ mem[i].closed = 1
    /\ ~mem[i].raised
    /\ Set(i, [pc |-> "closeEntry", result |-> "none", sigs |-> {}])
    /\ UNCHANGED envVars

\* no browser, no ledger file: the machine before the first invocation
FirstRun ==
    /\ ledger = NoLedger
    /\ listener = NoPid
    /\ \A p \in PIDs : proc[p] = "free"

StartFirstRun(i, c) == FirstRun /\ StartInvocation(i, c)

\* One invocation on a machine without a browser, which a signal may reach
NextSignal ==
    \/ \E i \in Sequential, c \in Commands : StartFirstRun(i, c)
    \/ \E i \in Sequential : Step(i)
    \/ \E i \in Sequential, s \in Signals : SigDispatch(i, s)
    \/ \E i \in Sequential : Switch(i)
    \/ \E p \in PIDs : ProcExits(p)
    \/ \E p \in PIDs : BrowserBinds(p)

SpecSignal == Init /\ [][NextSignal]_vars

\* One process on a machine without a browser, in which closeBrowser runs a
\* second time after its first run has completed
NextTwice ==
    \/ \E i \in Sequential, c \in Commands : StartFirstRun(i, c)
    \/ \E i \in Sequential, c \in {"page", "close"} : NextCall(i, c)
    \/ \E i \in Sequential : CloseAgain(i)
    \/ \E i \in Sequential : Step(i)
    \/ \E p \in PIDs : ProcExits(p)
    \/ \E p \in PIDs : BrowserBinds(p)

SpecTwice == Init /\ [][NextTwice]_vars

----------------------------------------------------------------------------
(* The earlier variant of the CLI, src/unnamed/part_000 *)

\* The variant shares initBrowser with cli.ts except for the ledger, which it
\* does not have (no write after the spawn), and its closeBrowser ends after
\* the kill of the child: no probe, no throwaway connection, no ledger.

EarlierEntryOf(c) == IF c = "page" THEN "initEntry" ELSE "earlierClose"

\* lines 245-258: main runs prepareChromeProfile and dispatches
EarlierStart(i, c) ==
    /\ \A j \in Inv : mem[j].pc = "idle"
    /\ prepareChromeProfile(TRUE)
    /\ Set(i, [pc |-> EarlierEntryOf(c), cmd |-> c])
    /\ UNCHANGED <<proc, listener, ledger>>

\* lines 43-53: spawn, followed at once by the wait loop.  A child without a
\* pid emits 'error', nothing listens for it, and the process ends.
EarlierSpawn(i) ==
    /\ mem[i].pc = "spawn"
    /\ \/ \E p \in PIDs :
            /\ proc[p] = "free"
            /\ proc' = [proc EXCEPT ![p] = "tool"]
            /\ Set(i, [pc |-> "wait", attempt |-> 0, chromeProcess |-> p,
                       childStatus |-> "running", launched |-> TRUE,
                       spawns |-> mem[i].spawns + 1])
       \/ /\ proc' = proc
          /\ mem' = [mem EXCEPT ![i] = FreshMem]
    /\ UNCHANGED <<listener, ledger, profileDir>>

\* closeBrowser called in a process after a command (lines 304-307, 315-323:
\* the catch of main and the signal handlers are its callers besides close)
EarlierNextCall(i) ==
    /\ mem[i].pc = "result"
    /\ mem[i].cmd = "page"
    /\ Set(i, [pc |-> "earlierClose", cmd |-> "close", err |-> "none",
               result |-> "none"])
    /\ UNCHANGED envVars

\* a kill of whatever child the process holds
EarlierMustKillAnyChild(i) == mem[i].chromeProcess /= NoPid

\* line 128: only kill Chrome if we started it
EarlierMustKill(i) ==
    mem[i].chromeProcess /= NoPid /\ mem[i].weStartedChrome

EarlierDone(i) ==
    [pc |-> "result",
     result |-> IF mem[i].cmd = "usage" THEN "failure" ELSE "success"]

\* lines 116-125: close the memoized handle, if any, ignoring its errors
EarlierClose(i) ==
    /\ mem[i].pc = "earlierClose"
    /\ LET b == mem[i].connected
           next == IF EarlierMustKill(i)
                   THEN [pc |-> "earlierKill"]
                   ELSE EarlierDone(i)
       IN
       IF mem[i].stagehandInstance = 0
       THEN /\ Set(i, next @@ [sigs |-> {}])
            /\ UNCHANGED <<proc, listener>>
       ELSE \E quits \in BOOLEAN :
            LET gone == b /= NoPid /\ quits
                asked == IF b /= NoPid
                         THEN [sigs |-> {Signal("close", "handle", b)}]
                         ELSE [sigs |-> {}]
            IN
            /\ proc' = IF gone THEN ProcAfterDeath(b) ELSE proc
            /\ listener' = IF gone THEN ListenerAfterDeath(b) ELSE listener
            /\ SetIn(IF gone THEN MemAfterDeath(b, "exited") ELSE mem, i,
                     [stagehandInstance |-> 0, currentPage |-> 0,
                      connected |-> NoPid, ret |-> NoRet]
                     @@ asked @@ next)
    /\ UNCHANGED <<ledger, profileDir>>

\* lines 128-136: kill() sends SIGTERM to the child, if it still runs, and
\* the handle and the flag are dropped
EarlierKill(i) ==
    /\ mem[i].pc = "earlierKill"
    /\ LET p == mem[i].chromeProcess
           alive == mem[i].childStatus = "running"
       IN \E dies \in BOOLEAN :
          /\ alive \/ ~dies
          /\ proc' = IF dies THEN ProcAfterDeath(p) ELSE proc
          /\ listener' = IF dies THEN ListenerAfterDeath(p) ELSE listener
          /\ SetIn(IF dies THEN MemAfterDeath(p, "signaled") ELSE mem, i,
                   EarlierDone(i) @@ ForgetChild
                   @@ (IF alive THEN Sent(i, "SIGTERM", "handle", p)
                       ELSE [sigs |-> mem[i].sigs]))
    /\ UNCHANGED <<ledger, profileDir>>

\* Invocations of the earlier variant, one after the other
NextEarlier ==
    \/ \E i \in Sequential, c \in Commands : EarlierStart(i, c)
    \/ \E i \in Sequential : Exit(i)
    \/ \E i \in Sequential : InitEntry(i)
    \/ \E i \in Sequential : FirstProbe(i)
    \/ \E i \in Sequential : EarlierSpawn(i)
    \/ \E i \in Sequential : WaitProbe(i)
    \/ \E i \in Sequential : ShInit(i)
    \/ \E i \in Sequential : PageReady(i)
    \/ \E i \in Sequential : Downloads(i)
    \/ \E i \in Sequential : PageOp(i)
    \/ \E i \in Sequential : EarlierNextCall(i)
    \/ \E i \in Sequential : EarlierClose(i)
    \/ \E i \in Sequential : EarlierKill(i)
    \/ \E p \in PIDs : ProcExits(p)
    \/ \E p \in PIDs : BrowserBinds(p)
    \/ \E p \in PIDs : UserStartsChrome(p, TRUE)

SpecEarlier == Init /\ [][NextEarlier]_vars

\* One invocation after the other on a machine of the tool alone, each with
\* at most one further call, with launches at different times: Date.now() of line 59 gives an earlier or
\* a later value
Stamps == {"t1", "t2"}

NextStamp ==
    \/ \E i \in Sequential, c \in Commands : StartInvocation(i, c)
    \/ \E i \in Sequential : Exit(i)
    \/ \E i \in Sequential, c \in {"page", "close"} : NextCall(i, c)
    \/ \E i \in Sequential : InitEntry(i)
    \/ \E i \in Sequential : FirstProbe(i)
    \/ \E i \in Sequential : Spawn(i)
    \/ \E i \in Sequential, now \in Stamps : WritePidAt(i, now)
    \/ \E i \in Sequential : WaitProbe(i)
    \/ \E i \in Sequential : ShInit(i)
    \/ \E i \in Sequential : PageReady(i)
    \/ \E i \in Sequential : Downloads(i)
    \/ \E i \in Sequential : PageOp(i)
    \/ \E i \in Sequential : CloseEntry(i)
    \/ \E i \in Sequential : CloseTerm(i)
    \/ \E i \in Sequential : CloseGrace(i)
    \/ \E i \in Sequential : CloseProbe1(i)
    \/ \E i \in Sequential : CloseTemp(i)
    \/ \E i \in Sequential : CloseProbe2(i)
    \/ \E i \in Sequential : CloseLedger(i)
    \/ \E i \in Sequential : CloseVerify(i)
    \/ \E i \in Sequential : CloseKill(i)
    \/ \E i \in Sequential : CloseFinally(i)
    \/ \E p \in PIDs : ProcExits(p)
    \/ \E p \in PIDs : BrowserBinds(p)

SpecStamp == Init /\ [][NextStamp]_vars

\* every external call returns or fails: a process that can take a step
\* takes one
SpecSignalFair ==
    SpecSignal
      /\ \A i \in Sequential : WF_vars(StepButLookup(i) \/ LookupReturns(i))

\* The tool server and its calls, two of them at a time at most, the second
\* running to its end while the first is suspended
NextServer ==
    \/ \E i \in Sequential : StartServer(i)
    \/ \E i \in Sequential, t \in McpTools : McpCall(i, t)
    \/ \E i \in Sequential : McpReturn(i)
    \/ \E i \in Sequential : McpEntry(i)
    \/ \E i \in Sequential : McpWait(i)
    \/ \E i \in Sequential : McpInit(i)
    \/ \E i \in Sequential : McpPageReady(i)
    \/ \E i \in Sequential : McpDownloads(i)
    \/ \E i \in Sequential : McpPageOp(i)
    \/ \E i \in Sequential : McpClose(i)
    \/ \E i \in Sequential : McpCloseHandle(i)
    \/ \E p \in PIDs : ProcExits(p)
    \/ \E p \in PIDs : BrowserBinds(p)

SpecServer == Init /\ [][NextServer]_vars

----------------------------------------------------------------------------
(* Properties of closeBrowser *)

\* the signals (not the requests to close) sent in the current or last run
\* of closeBrowser of invocation i
Kills(i) == {e \in mem[i].sigs : e.sig \in {"SIGTERM", "SIGKILL"}}
ForceKills(i) == {e \in mem[i].sigs : e.sig = "SIGKILL"}

\* the lookup of this run found a chrome/chromium executable under pid p
LookupConfirmed(i, p) == mem[i].pid = p /\ mem[i].lookup \in Browsers

\* a run of closeBrowser of invocation i has completed
CloseDone(i) == mem[i].pc = "result" /\ mem[i].cmd \in {"close", "usage"}

\* C1 as stated: in every run of closeBrowser a forceful kill is issued
\* against a pid only if a process-table lookup of the same run confirmed
\* that the pid names a chrome/chromium executable.
C1_EveryForceKillVerified ==
    \A i \in Inv : \A e \in ForceKills(i) : LookupConfirmed(i, e.pid)

\* C1 amended: a forceful kill of the pid read from the ledger is issued only
\* after a lookup of the same run confirmed a chrome/chromium executable under
\* that pid; the only other forceful kill is the SIGKILL sent through the
\* handle of the child this invocation spawned, which needs no lookup.
C1_LedgerForceKillVerified ==
    \A i \in Inv : \A e \in ForceKills(i) :
        \/ e.via = "ledger" /\ LookupConfirmed(i, e.pid)
        \/ e.via = "handle" /\ e.target = "tool" /\ mem[i].launched

\* a verified force kill of the ledger's pid has happened
C1_Witness ==
    \E i \in Inv : \E e \in ForceKills(i) :
        e.via = "ledger" /\ LookupConfirmed(i, e.pid)

\* C2: closeBrowser never sends a terminating signal to a browser process
\* that no invocation of the tool spawned (a browser of the user).
C2_NoForeignBrowserKilled ==
    \A i \in Inv : \A e \in Kills(i) : e.target /= "user"

\* C3 as stated: whenever a run of closeBrowser completes, the ledger file
\* does not exist.
C3_LedgerAbsentAfterClose ==
    \A i \in Inv : CloseDone(i) => ledger = NoLedger

\* C3 amended: whenever a run of closeBrowser completes, the ledger file does
\* not exist, unless the deletion itself failed (the failure is ignored and
\* the file stays).
C3_LedgerAbsentUnlessUnlinkFailed ==
    \A i \in Inv : CloseDone(i) => (ledger = NoLedger \/ mem[i].unlinkFailed)

\* a run completed after the lookup had refused the kill, and the ledger file
\* it had read is gone
C3_Witness ==
    \E i \in Inv : /\ CloseDone(i)
                   /\ mem[i].lookup = "other"
                   /\ ~mem[i].unlinkFailed
                   /\ ledger = NoLedger

C5_CloseNeverRaises ==
    \A i \in Inv : ~mem[i].raised /\ ~mem[i].pending

\* a run returned normally although the deletion of the ledger failed
C5_Witness ==
    \E i \in Inv : CloseDone(i) /\ mem[i].unlinkFailed /\ ~mem[i].raised

----------------------------------------------------------------------------
(* Properties of initBrowser *)

\* C6: when the control endpoint answers the first probe of initBrowser
\* with a success status, that acquisition spawns no browser process, writes
\* no ledger file, and weStartedChrome stays false.
C6_ReuseLaunchesNothing ==
    \A i \in Inv :
        mem[i].firstProbe = "ok" =>
            /\ mem[i].spawns = 0
            /\ mem[i].writes = 0
            /\ ~mem[i].weStartedChrome

\* an acquisition that reused the browser it found has succeeded
C6_Witness ==
    \E i \in Inv :
        /\ mem[i].firstProbe = "ok"
        /\ mem[i].pc = "result"
        /\ mem[i].result = "success"
        /\ ~mem[i].weStartedChrome

\* the launch half of C7: after a failed first probe the acquisition has
\* spawned exactly once as soon as it is past the spawn, the ledger is
\* written only after the spawn, and it holds the pid of the child during the
\* whole readiness wait, the first probe of the wait included
LaunchedOnceLedgerFirst(i) ==
    /\ mem[i].firstProbe = "fail" =>
           mem[i].spawns = (IF mem[i].pc = "spawn" THEN 0 ELSE 1)
    /\ mem[i].writes <= mem[i].spawns
    /\ mem[i].pc = "wait" =>
           /\ mem[i].writes = 1
           /\ ledger.pid = mem[i].chromeProcess

\* C7 as stated: after a failed first probe with an executable found, the
\* invocation spawns the browser exactly once, the ledger entry with the new
\* pid is written after the spawn and before the first probe of the
\* readiness wait, and no entry exists after any later closeBrowser run.
C7_LaunchOnceEntryGoneAfterClose ==
    \A i \in Inv :
        /\ LaunchedOnceLedgerFirst(i)
        /\ CloseDone(i) => ledger = NoLedger

\* C7 amended: the same, except that the entry survives a closeBrowser run
\* whose unlinkSync failed.
C7_LaunchOnceEntryGoneUnlessUnlinkFailed ==
    \A i \in Inv :
        /\ LaunchedOnceLedgerFirst(i)
        /\ CloseDone(i) => (ledger = NoLedger \/ mem[i].unlinkFailed)

\* the invocation launched a browser, and its later closeBrowser removed the
\* entry
C7_Witness ==
    \E i \in Inv :
        /\ mem[i].launched
        /\ mem[i].again
        /\ CloseDone(i)
        /\ ~mem[i].unlinkFailed
        /\ ledger = NoLedger

\* C9: with a ledger entry left behind by a browser that has died, the next
\* initBrowser goes from the failed first probe to the spawn without an
\* error, the write that follows the spawn replaces the ledger content with
\* the pid of the new child, and no step of the acquisition sends a signal.
C9_StaleEntryReplaced ==
    [][\A i \in Inv :
          /\ (mem[i].pc = "firstProbe" /\ mem'[i].pc /= "firstProbe"
                /\ ~EndpointReady)
               => (mem'[i].pc = "spawn" /\ mem'[i].err = "none")
          /\ (mem[i].pc = "writePid" /\ mem'[i].pc /= "writePid"
                /\ mem[i].chromeProcess /= NoPid)
               => (mem'[i].pc = "wait" /\ mem'[i].err = "none"
                     /\ ledger'.pid = mem[i].chromeProcess)
          /\ (mem[i].cmd = "page" /\ mem'[i].cmd = "page")
               => mem'[i].sigs = mem[i].sigs
      ]_vars

\* the acquisition has just replaced an entry that named another pid, which
\* no live process has
C9_Witness ==
    \E i \in Inv : \E p \in PIDs :
        /\ mem[i].pc = "wait"
        /\ mem[i].replaced
        /\ ~mem[i].again
        /\ ledger.pid = mem[i].chromeProcess
        /\ p /= ledger.pid
        /\ proc[p] = "free"
        /\ mem[i].sigs = {}

\* C10: once a handle exists in the invocation, a later initBrowser call
\* returns that handle and its page and does nothing else (no probe, no
\* spawn, no ledger write, no initialization), so that the invocation
\* initializes a control handle at most once.
C10_Memoized ==
    [][\A i \in Inv :
          /\ (mem[i].pc = "initEntry" /\ mem'[i].pc /= "initEntry"
                /\ mem[i].stagehandInstance /= 0)
               => /\ mem'[i] = [mem[i] EXCEPT
                       !.pc = "pageOp",
                       !.ret = <<mem[i].stagehandInstance,
                                 mem[i].currentPage>>]
                  /\ mem[i].ret /= NoRet => mem'[i].ret = mem[i].ret
                  /\ UNCHANGED envVars
          /\ (mem'[i].lastHandle /= mem[i].lastHandle /\ mem'[i].pc /= "idle")
               => mem[i].lastHandle = 0
      ]_vars

\* a second call has returned the handle and the page of the first
C10_Witness ==
    \E i \in Inv :
        /\ mem[i].again
        /\ mem[i].pc = "pageOp"
        /\ mem[i].firstProbe = "none"
        /\ mem[i].ret /= NoRet
        /\ mem[i].ret = <<mem[i].stagehandInstance, mem[i].currentPage>>
        /\ mem[i].currentPage /= 0
        /\ mem[i].lastHandle = 1

\* C11: in the readiness wait every failed probe, whether it threw or
\* answered another status, is followed by the same 300 ms delay and by the
\* next probe, with no error raised, up to 50 probes, after which the
\* acquisition fails with "Chrome failed to start"; a probe that succeeds
\* ends the wait, so that no probe follows it.
C11_BoundedFixedWait ==
    [][\A i \in Inv :
          /\ mem'[i].pc = "wait" =>
                /\ mem'[i].attempt < WaitAttempts
                /\ mem'[i].slept = WaitInterval * mem'[i].attempt
                /\ mem'[i].err = "none"
          /\ mem'[i].err = "Chrome failed to start" =>
                /\ mem'[i].probes = WaitAttempts
                /\ mem'[i].slept = WaitAttempts * WaitInterval
                /\ mem'[i].pc \in {"result", "closeEntry", "initEntry"}
          /\ (mem[i].pc = "wait" /\ mem'[i].pc /= "wait") =>
                \/ EndpointReady /\ mem'[i].pc = "shInit"
                \/ /\ ~EndpointReady
                   /\ mem[i].attempt = WaitAttempts - 1
                   /\ mem'[i].err = "Chrome failed to start"
                   /\ mem'[i].result = "failure"
          /\ (mem[i].pc = "wait" /\ mem'[i].pc = "wait"
                /\ mem'[i].attempt /= mem[i].attempt) =>
                /\ ~EndpointReady
                /\ mem'[i].attempt = mem[i].attempt + 1
      ]_vars

\* the wait has run out after 50 probes and 50 delays of 300 ms
C11_Witness ==
    \E i \in Inv :
        /\ mem[i].pc = "result"
        /\ mem[i].err = "Chrome failed to start"
        /\ mem[i].probes = 50
        /\ mem[i].slept = 15000
        /\ mem[i].launched

\* the errors initBrowser ends with
AcquisitionErrors ==
    {"Could not find Chrome installation", "Chrome failed to start",
     "Stagehand init failed", "CDP session failed"}

\* C12: when initBrowser fails inside a command the command yields a failure
\* result, nothing is raised, and the process does not exit before
\* closeBrowser has been invoked.
C12_FailedAcquisitionClosesBeforeExit ==
    [][\A i \in Inv :
          (mem[i].pc = "result" /\ mem'[i].pc = "idle") =>
              ~(/\ mem[i].cmd = "page"
                /\ mem[i].result = "failure"
                /\ ~mem[i].raised
                /\ mem[i].err \in AcquisitionErrors)
      ]_vars

\* C15: initBrowser returns a handle only when the page has answered the
\* readiness check; when all 30 retries have failed the acquisition fails
\* with an error of its own.
C15_NoHandleWithoutReadyPage ==
    \A i \in Inv :
        mem[i].pageCheck = "exhausted" => mem[i].pc /= "pageOp"

\* C16: when no executable is found, initBrowser fails with "Could not find
\* Chrome installation" as its first step, before any probe, spawn or ledger
\* write and without a retry, and it changes neither the in-memory session
\* nor the ledger nor any process.
C16_DiscoveryFailureFirst ==
    [][\A i \in Inv :
          (mem'[i].err = "Could not find Chrome installation"
             /\ mem[i].err /= mem'[i].err) =>
              /\ mem[i].pc = "initEntry"
              /\ mem[i].stagehandInstance = 0
              /\ mem'[i] = [mem[i] EXCEPT
                                !.pc = "result", !.result = "failure",
                                !.err = "Could not find Chrome installation"]
              /\ mem'[i].firstProbe = "none"
              /\ mem'[i].spawns = 0
              /\ mem'[i].writes = 0
              /\ mem'[i].probes = 0
              /\ UNCHANGED envVars
      ]_vars

\* a command has failed for want of an executable, with a ledger entry and
\* a browser of an earlier invocation left as they were
C16_Witness ==
    \E i \in Inv :
        /\ mem[i].pc = "result"
        /\ mem[i].err = "Could not find Chrome installation"
        /\ mem[i].result = "failure"
        /\ mem[i].firstProbe = "none"
        /\ ~mem[i].launched
        /\ ledger /= NoLedger
        /\ proc[ledger.pid] = "tool"

\* a browser the tool spawned and recorded, which is alive and does not
\* answer the control endpoint: what a launch whose wait timed out leaves
Orphan(p) == ledger.pid = p /\ proc[p] = "tool" /\ listener /= p

\* C17: the process and the ledger entry left by a launch whose readiness
\* wait timed out outlive that invocation, and a later closeBrowser run ends
\* with that process terminated.
C17_OrphanTerminatedByClose ==
    [][\A i \in Inv : \A p \in PIDs :
          /\ (mem[i].pc = "result" /\ mem'[i].pc = "idle"
                /\ mem[i].err = "Chrome failed to start"
                /\ mem[i].cmd = "page") =>
               /\ ledger' = ledger /\ proc' = proc
               /\ ledger.pid = mem[i].chromeProcess
          /\ (mem[i].pc = "closeFinally" /\ mem'[i].pc = "result"
                /\ Orphan(p)) =>
               proc'[p] = "free"
      ]_vars

\* how the ledger file comes and goes: it appears only when a spawn is
\* recorded, every recorded spawn leaves it present, and it disappears only
\* in the final step of a closeBrowser run
LedgerComesAndGoes ==
    /\ (ledger = NoLedger /\ ledger' /= NoLedger) =>
           \E i \in Inv : /\ mem[i].pc = "writePid"
                          /\ mem[i].chromeProcess /= NoPid
                          /\ ledger'.pid = mem[i].chromeProcess
    /\ \A i \in Inv :
           (mem[i].pc = "writePid" /\ mem'[i].pc = "wait") =>
               ledger' /= NoLedger
    /\ (ledger /= NoLedger /\ ledger' = NoLedger) =>
           \E i \in Inv : mem[i].pc = "closeFinally" /\ mem'[i].pc = "result"

\* C18 as stated: the ledger file exists exactly when an earlier invocation
\* has spawned a browser and recorded its pid and no closeBrowser run has
\* been attempted since: the file comes with the record of a spawn, and
\* every closeBrowser run, and nothing else, ends with the file absent.
C18_LedgerIffSpawnedNotClosed ==
    [][/\ LedgerComesAndGoes
       /\ \A i \in Inv :
              (mem[i].pc = "closeFinally" /\ mem'[i].pc = "result") =>
                  ledger' = NoLedger
      ]_vars

\* C18 amended: the same, except that a closeBrowser run whose unlinkSync
\* failed leaves the file in place.
C18_LedgerIffSpawnedNotClosedUnlessUnlinkFailed ==
    [][/\ LedgerComesAndGoes
       /\ \A i \in Inv :
              (mem[i].pc = "closeFinally" /\ mem'[i].pc = "result") =>
                  (ledger' = NoLedger \/ mem'[i].unlinkFailed)
      ]_vars

\* between two invocations the file is there, for a browser spawned earlier
\* and not closed since
C18_Witness ==
    /\ \A i \in Inv : mem[i].pc = "idle"
    /\ ledger /= NoLedger
    /\ proc[ledger.pid] = "tool"
    /\ listener = ledger.pid

\* C19: with two invocations running concurrently, an invocation whose first
\* probe finds the endpoint silent decides to launch, whatever the other
\* invocation has launched or written, and a write of the ledger leaves in it
\* the pid of the writer alone: the ledger holds the pid written last.
C19_BothLaunchLastWriteWins ==
    [][\A i \in Inv :
          /\ (mem[i].pc = "firstProbe" /\ mem'[i].pc /= "firstProbe"
                  /\ ~EndpointReady) =>
                 mem'[i].pc = "spawn"
          /\ (mem[i].pc = "writePid" /\ mem'[i].pc = "wait") =>
                 ledger'.pid = mem[i].chromeProcess
      ]_vars

\* both invocations have spawned a browser, both browsers are alive, and the
\* ledger names the one written last only
C19_Witness ==
    /\ \A i \in Inv :
           /\ mem[i].pc = "wait"
           /\ mem[i].launched
           /\ proc[mem[i].chromeProcess] = "tool"
    /\ mem["inv"].chromeProcess /= mem["inv2"].chromeProcess
    /\ mem["inv"].replaced
    /\ ~mem["inv2"].replaced
    /\ ledger.pid = mem["inv"].chromeProcess

\* C20: only an invocation whose command is 'close' asks a browser left by
\* an earlier invocation to close or signals it; an invocation whose command
\* is unknown, lacks an argument or has an unparsable schema never does.
C20_OnlyCloseCommandCloses ==
    \A i \in Inv :
        mem[i].cmd = "usage" =>
            \A e \in mem[i].sigs : e.target /= "tool"

----------------------------------------------------------------------------
(* Signals and the end of the shutdown *)

ClosePcs ==
    {"closeEntry", "closeTerm", "closeGrace", "closeProbe1", "closeTemp",
     "closeProbe2", "closeLedger", "closeVerify", "closeKill", "closeFinally"}

\* the locals of the signal handler of process i, running or suspended
Handler(i) ==
    IF mem[i].role = "handler" THEN LocalsOf(mem[i]) ELSE mem[i].other

\* some function of process i is inside closeBrowser
Closing(i) == mem[i].pc \in ClosePcs \/ mem[i].other.pc \in ClosePcs

C14_ShutdownTerminates ==
    \A i \in Sequential :
        /\ Closing(i) ~> ~Closing(i)
        /\ (Handler(i).pc /= "none") ~> (mem[i].pc = "idle")

\* the handler has been through the 1 s grace period and the forced kill of
\* its child, and its closeBrowser run has returned
C14_Witness ==
    \E i \in Sequential :
        /\ mem[i].role = "handler"
        /\ mem[i].pc = "result"
        /\ \E e \in mem[i].sigs : e.sig = "SIGKILL" /\ e.via = "handle"

\* ---------------------------------------------------------------------------
\* C21: in the tool server, between two completed close_browser calls, the
\* browser is spawned at most once and the control handle is initialized at
\* most once, whatever the order and overlap of the tool calls.
\* (launches and inits count the spawns of line 47 and the handles created at
\* line 96 since the last completed closeStagehand.)
C21_SpawnedAndInitializedOnce ==
    \A i \in Inv : mem[i].launches <= 1 /\ mem[i].inits <= 1

\* ---------------------------------------------------------------------------
\* C22: over any sequence of invocations prepareChromeProfile copies the
\* user's profile at most once: it copies only when .chrome-profile does not
\* exist, and every later call leaves the directory untouched.
C22_ProfileCopiedAtMostOnce ==
    [][/\ profileDir.exists => profileDir' = profileDir
       /\ profileDir'.copies # profileDir.copies => ~profileDir.exists
       /\ profileDir'.copies <= 1]_vars

\* a second invocation has started and the profile was copied by the first
C22_Witness ==
    /\ profileDir.copies = 1
    /\ mem["inv"].pc = "initEntry"
    /\ ledger /= NoLedger

C24_StillReachableReadsLedger ==
    [][\A i \in Inv :
          mem[i].pc = "closeTemp" /\ mem'[i].pc = "closeFinally"
          => listener' = NoPid]_vars

\* ---------------------------------------------------------------------------
\* C25: the endpoint probe of closeBrowser is executed in every run, with or
\* without a control handle or a process handle, and whether closing the
\* handle or signalling the child succeeded or raised an error: the steps
\* before the probe lead to the probe and nowhere else, and the steps after
\* it are entered through it.
BeforeProbe == {"closeEntry", "closeTerm", "closeGrace"}

AfterProbe == ClosePcs \ (BeforeProbe \cup {"closeProbe1"})

C25_ProbeInEveryRun ==
    [][\A i \in Inv :
          /\ mem[i].pc \in BeforeProbe
             => mem'[i].pc \in BeforeProbe \cup {"closeProbe1"}
          /\ mem'[i].pc \in AfterProbe
             => mem[i].pc \in AfterProbe \cup {"closeProbe1"}]_vars

\* the run closed its handle, signalled its child and stands at the probe
C25_Witness ==
    /\ mem["inv"].pc = "closeProbe1"
    /\ mem["inv"].launched
    /\ mem["inv"].chromeProcess = NoPid
    /\ \E s \in mem["inv"].sigs : s.sig = "SIGTERM"
    /\ \E s \in mem["inv"].sigs : s.sig = "close" /\ s.via = "handle"

\* ---------------------------------------------------------------------------
\* C26: a browser launched by the tool moves only along ABSENT -> LAUNCHING
\* -> READY -> ACTIVE -> CLOSING -> ABSENT, a crash to ABSENT apart: no
\* shutdown step acts on a browser still LAUNCHING, and a browser in CLOSING
\* is not used again.  The stages of the process under pid p: spawned by the
\* tool and not yet serving the control endpoint (LAUNCHING), serving it
\* (READY), connected to by an invocation (ACTIVE), acted on by a step of a
\* closeBrowser run (CLOSING), not running (ABSENT); a browser idle between
\* two invocations that use it counts as READY again.
C26_LifecycleOnly ==
    [][LET Stage(p) ==
               IF proc[p] /= "tool" THEN "ABSENT"
               ELSE IF \E i \in Inv : \E s \in mem[i].sigs : s.pid = p
               THEN "CLOSING"
               ELSE IF listener /= p THEN "LAUNCHING"
               ELSE IF \E i \in Inv : mem[i].connected = p THEN "ACTIVE"
               ELSE "READY"
           Lifecycle ==
               {<<"ABSENT", "LAUNCHING">>, <<"LAUNCHING", "READY">>,
                <<"READY", "ACTIVE">>, <<"ACTIVE", "READY">>,
                <<"READY", "CLOSING">>, <<"ACTIVE", "CLOSING">>,
                <<"CLOSING", "ABSENT">>, <<"LAUNCHING", "ABSENT">>,
                <<"READY", "ABSENT">>, <<"ACTIVE", "ABSENT">>}
       IN \A p \in PIDs :
              Stage(p)' /= Stage(p)
              => <<Stage(p), Stage(p)'>> \in Lifecycle]_vars

\* ---------------------------------------------------------------------------
\* C27: whenever the ledger file exists its pid is the pid of the process
\* spawned by the most recent launch, and an invocation that reuses a browser
\* or runs on its memoized handle never changes the ledger: every launch that
\* got a pid leaves that pid in the file, whatever the file held; the file
\* gets new content from nothing but such a launch; and a call that has
\* spawned nothing leaves the file as it is until closeBrowser removes it.
C27_LedgerNamesLatestLaunch ==
    [][/\ \A i \in Inv :
              (/\ mem[i].pc = "writePid"
               /\ mem'[i].pc /= "writePid"
               /\ mem[i].chromeProcess /= NoPid)
              => ledger' /= NoLedger /\ ledger'.pid = mem[i].chromeProcess
       /\ ledger' /= ledger
              => \E i \in Inv :
                    \/ /\ mem[i].pc = "writePid"
                       /\ mem[i].spawns > 0
                       /\ mem[i].chromeProcess /= NoPid
                       /\ ledger'.pid = mem[i].chromeProcess
                    \/ /\ mem[i].pc \in ClosePcs
                       /\ ledger' = NoLedger
       /\ \A i \in Inv :
              (/\ mem[i].cmd = "page"
               /\ mem[i].spawns = 0
               /\ mem[i].pc \notin ClosePcs)
              => ledger' = ledger]_vars

\* a launch has replaced the entry of an earlier launch, and a later
\* invocation reuses the browser with the ledger still naming it
C27_Witness ==
    /\ mem["inv"].pc = "pageOp"
    /\ mem["inv"].firstProbe = "ok"
    /\ ~mem["inv"].launched
    /\ ledger /= NoLedger
    /\ listener = ledger.pid
    /\ \E p \in PIDs : p /= ledger.pid /\ proc[p] = "tool"

\* ---------------------------------------------------------------------------
\* C28: in every state of an invocation, weStartedChrome is true only if
\* chromeProcess holds the process this invocation spawned and that process
\* answered a readiness probe, and chromeProcess is non-null only if this
\* invocation spawned a browser: the flag is raised by a probe that the
\* spawned process itself answered.
C28_FlagMeansOwnBrowserAnswered ==
    [][\A i \in Inv :
          /\ mem'[i].chromeProcess /= NoPid => mem'[i].launched
          /\ mem'[i].weStartedChrome => mem'[i].chromeProcess /= NoPid
          /\ (~mem[i].weStartedChrome /\ mem'[i].weStartedChrome)
             => listener = mem[i].chromeProcess]_vars

\* ---------------------------------------------------------------------------
\* the signals of the operating system among what a run has sent
OsSignals(i) == {s \in mem[i].sigs : s.sig /= "close"}

C30_HandlersAlwaysReturnContent ==
    \A i \in Inv :
        (mem[i].pc = "result" /\ mem[i].cmd \in {"page", "close"})
        => /\ ~mem[i].raised
           /\ mem[i].result \in {"success", "failure"}
           /\ mem[i].result = "failure" => mem[i].err /= "none"

\* close_browser returned an error text: closing the control handle threw
C30_Witness ==
    /\ mem["inv"].pc = "result"
    /\ mem["inv"].cmd = "close"
    /\ mem["inv"].result = "failure"
    /\ mem["inv"].err = "close failed"
    /\ mem["inv"].stagehandInstance /= 0
    /\ ~mem["inv"].raised

C32_NoExitDuringCloseRun ==
    [][\A i \in Inv :
          (mem[i].pc = "result" /\ mem'[i].pc = "idle") =>
              mem[i].other.pc \notin ClosePcs]_vars

\* ---------------------------------------------------------------------------
\* C33: an acquisition that returns the memoized handle returns a handle
\* whose acquisition was completed: a tool call that runs alone in the server
\* and has come back from getStagehand never holds a null page.
C33_MemoizedHandleIsReady ==
    \A i \in Inv :
        (mem[i].pc = "mcpPageOp" /\ mem[i].other.pc = "none") =>
            mem[i].ret[2] /= 0

\* ---------------------------------------------------------------------------
\* C34: whenever closeBrowser force-kills the pid it read from the ledger,
\* that pid is the process that serves the control endpoint at that moment.
C34_KilledPidServesEndpoint ==
    [][\A i \in Inv : \A s \in mem'[i].sigs \ mem[i].sigs :
          (s.sig = "SIGKILL" /\ s.via = "ledger") => s.pid = listener]_vars

\* ---------------------------------------------------------------------------
\* C35: a closeBrowser run in an invocation that did not launch the browser,
\* which found the endpoint served by the live tool-launched browser the
\* ledger names, does not complete with the ledger deleted and that browser
\* alive.
C35_LedgerDeletedOnlyWithBrowserGone ==
    [][\A i \in Inv : \A p \in PIDs :
          (/\ mem[i].pc = "closeFinally" /\ mem'[i].pc = "result"
           /\ ~mem[i].launched
           /\ \E s \in mem[i].sigs :
                 s.sig = "close" /\ s.via = "cdp" /\ s.pid = p
           /\ ledger.pid = p /\ proc[p] = "tool" /\ listener = p
           /\ ledger' = NoLedger) =>
              proc'[p] = "free"]_vars

\* ---------------------------------------------------------------------------
\* C36: every closeStagehand call of the tool server ends with the session
\* empty: when close_browser comes to its result, stagehandInstance,
\* currentPage and chromeProcess are null, whether or not closing the handle
\* raised an error.
C36_CloseLeavesSessionEmpty ==
    [][\A i \in Inv :
          (/\ mem[i].cmd = "close"
           /\ mem[i].pc \in {"mcpClose", "mcpCloseHandle"}
           /\ mem'[i].pc = "result") =>
              /\ mem'[i].stagehandInstance = 0
              /\ mem'[i].currentPage = 0
              /\ mem'[i].chromeProcess = NoPid]_vars

\* ---------------------------------------------------------------------------
\* C37: in the tool server no spawned browser loses its reference without
\* being killed: whenever chromeProcess stops naming a live process that
\* getStagehand spawned, that step sends the process a kill.
C37_NoSpawnedProcessUnreferenced ==
    [][\A i \in Inv : \A p \in PIDs :
          (/\ mem[i].chromeProcess = p
           /\ mem'[i].chromeProcess /= p
           /\ proc[p] = "tool") =>
              \E s \in mem'[i].sigs : s.sig = "SIGTERM" /\ s.pid = p]_vars

\* ---------------------------------------------------------------------------
\* C38: the startTime stored in the ledger influences no decision of
\* closeBrowser.  The same ledger with another startTime:
Restamped(file, t) ==
    IF file = NoLedger THEN NoLedger ELSE [file EXCEPT !.startTime = t]

\* C38: every step of a closeBrowser run is a step of the run from the state
\* that differs in the ledger's startTime alone, with the same effect on the
\* memory of the invocation, on the processes and on the endpoint, and the
\* same file left (up to its startTime): the read of the ledger gives the
\* same pid and the same branch, the final deletion the same outcome, and
\* the other steps of the run leave the file as it is.
C38_StartTimeDecidesNothing ==
    [][\A i \in Sequential : \A t \in Stamps :
          /\ CloseLedger(i) => CloseLedgerOn(i, Restamped(ledger, t))
          /\ CloseFinally(i) =>
                \E unlinked \in BOOLEAN :
                    /\ CloseFinallyOn(i, Restamped(ledger, t), unlinked)
                    /\ Restamped(ledger', t) =
                         LedgerAfterClose(i, Restamped(ledger, t), unlinked)
          /\ (mem[i].pc \in ClosePcs \ {"closeFinally"}
                 /\ mem'[i].pc \in ClosePcs) => ledger' = ledger]_vars

\* a closeBrowser run has read a ledger with the later startTime and has
\* force-killed the browser it names
C38_Witness ==
    /\ mem["inv"].pc = "closeFinally"
    /\ ledger /= NoLedger
    /\ ledger.startTime = "t2"
    /\ mem["inv"].pid = ledger.pid
    /\ \E s \in mem["inv"].sigs : s.sig = "SIGKILL" /\ s.via = "ledger"

====
